---- MODULE Spec2Model ----
(***************************************************************************)
(* A model of the dependency scanner: scan (fetch page, runtime detection, *)
(* signature detection, static URL detection, deduplication, per-library   *)
(* enrichment, TLS check, report) and of the pure functions it rests on    *)
(* (detectLibraries, dedupeLibs, coerceSemver .. determineIfLatestVersion).*)
(*                                                                         *)
(* JavaScript strings the code inspects character by character (URLs,      *)
(* names, versions, sources) are sequences of one-character strings.       *)
(* null is Null (the empty tuple) and a present value x is Some(x).        *)
(***************************************************************************)
EXTENDS Integers, Sequences, FiniteSets, TLC

VARIABLES
    pc,          \* position of scan (or of the pure-function harness)
    scripts,     \* fetchPage's script src list
    runtimeLibs, \* scan's runtimeLibs
    jsUrls,      \* scan's jsUrls
    retireHits,  \* scan's retireHits
    libs,        \* the merged list dedupeLibs returned
    tasks,       \* one entry per enrichment promise of scan
    finalLibs,   \* scan's finalLibs
    tlsExpiry,   \* scan's tlsExpiry
    report,      \* the report scan logged, Null before
    outcomes,    \* how each awaited phase of scan settled
    fnIn,        \* argument of the pure function under check
    fnOut,       \* its result
    browser,     \* the puppeteer session runtimeDetect launched
    rd,          \* the runtimeDetect call: its position and locals
    pass,        \* the detectWithRetire call: its position and locals
    fetched,     \* the URLs fetchText was called with, in order
    clock        \* ms since scan started the signature phase

\* The state of the two detector calls followed step by step
callVars == <<browser, rd, pass, fetched, clock>>

vars == <<pc, scripts, runtimeLibs, jsUrls, retireHits, libs, tasks,
          finalLibs, tlsExpiry, report, outcomes, fnIn, fnOut, callVars>>

Null == <<>>
Some(x) == <<x>>

\* Neither detector call is being followed
CallsIdle ==
    /\ browser = "none"
    /\ rd = Null
    /\ pass = Null
    /\ fetched = <<>>
    /\ clock = 0

----------------------------------------------------------------------------
(* Characters *)

DigitChars == {"0", "1", "2", "3", "4", "5", "6", "7", "8", "9"}
DigitValues ==
    ("0" :> 0) @@ ("1" :> 1) @@ ("2" :> 2) @@ ("3" :> 3) @@ ("4" :> 4) @@
    ("5" :> 5) @@ ("6" :> 6) @@ ("7" :> 7) @@ ("8" :> 8) @@ ("9" :> 9)
UpperToLower ==
    [A |-> "a", B |-> "b", C |-> "c", D |-> "d", E |-> "e", F |-> "f",
     G |-> "g", H |-> "h", I |-> "i", J |-> "j", K |-> "k", L |-> "l",
     M |-> "m", N |-> "n", O |-> "o", P |-> "p", Q |-> "q", R |-> "r",
     S |-> "s", T |-> "t", U |-> "u", V |-> "v", W |-> "w", X |-> "x",
     Y |-> "y", Z |-> "z"]
LowerToUpper ==
    [a |-> "A", b |-> "B", c |-> "C", d |-> "D", e |-> "E", f |-> "F",
     g |-> "G", h |-> "H", i |-> "I", j |-> "J", k |-> "K", l |-> "L",
     m |-> "M", n |-> "N", o |-> "O", p |-> "P", q |-> "Q", r |-> "R",
     s |-> "S", t |-> "T", u |-> "U", v |-> "V", w |-> "W", x |-> "X",
     y |-> "Y", z |-> "Z"]

IsDigit(c) == c \in DigitChars
DigitVal(c) == DigitValues[c]

LowerChar(c) == IF c \in DOMAIN UpperToLower THEN UpperToLower[c] ELSE c
UpperChar(c) == IF c \in DOMAIN LowerToUpper THEN LowerToUpper[c] ELSE c

\* String.prototype.toLowerCase
toLowerCase(s) == [i \in 1..Len(s) |-> LowerChar(s[i])]

\* s.slice(from - 1): the suffix of s starting at 1-based position from
Suffix(s, from) == SubSeq(s, from, Len(s))

Min(a, b) == IF a <= b THEN a ELSE b

----------------------------------------------------------------------------
(* utils/versionCheck.js *)

\* Last position of the greedy \d+ that starts at position i (s[i] is a digit)
RECURSIVE DigitsEnd(_, _)
DigitsEnd(s, i) ==
    IF i + 1 <= Len(s) /\ IsDigit(s[i + 1]) THEN DigitsEnd(s, i + 1) ELSE i

\* Last position after at most k more greedy repetitions of (?:\.\d+),
\* the match so far ending at position j
RECURSIVE DottedEnd(_, _, _)
DottedEnd(s, j, k) ==
    IF k > 0 /\ j + 2 <= Len(s) /\ s[j + 1] = "." /\ IsDigit(s[j + 2])
    THEN DottedEnd(s, DigitsEnd(s, j + 2), k - 1)
    ELSE j

HasDigit(s) == \E i \in 1..Len(s) : IsDigit(s[i])
FirstDigit(s) == CHOOSE i \in 1..Len(s) :
                    IsDigit(s[i]) /\ \A j \in 1..(i - 1) : ~IsDigit(s[j])

ZeroVersion == <<"0", ".", "0", ".", "0">>
MaxExtraComponents == 3

coerceSemver(v) ==
    IF v = <<>> THEN ZeroVersion
    ELSE IF ~HasDigit(v) THEN ZeroVersion
    ELSE LET i == FirstDigit(v)
         IN  SubSeq(v, i, DottedEnd(v, DigitsEnd(v, i), MaxExtraComponents))

\* String.prototype.split(".")
RECURSIVE SplitDots(_)
SplitDots(s) ==
    IF \E i \in 1..Len(s) : s[i] = "."
    THEN LET i == CHOOSE k \in 1..Len(s) :
                     s[k] = "." /\ \A j \in 1..(k - 1) : s[j] # "."
         IN  <<SubSeq(s, 1, i - 1)>> \o SplitDots(Suffix(s, i + 1))
    ELSE <<s>>

\* Number(x) of a string of decimal digits (Number("") is 0)
RECURSIVE NumberOf(_)
NumberOf(d) ==
    IF d = <<>> THEN 0
    ELSE 10 * NumberOf(SubSeq(d, 1, Len(d) - 1)) + DigitVal(d[Len(d)])

parseSemver(v) ==
    LET parts == SplitDots(coerceSemver(v))
        part(i) == IF i <= Len(parts) THEN parts[i] ELSE <<"0">>
    IN  <<NumberOf(part(1)), NumberOf(part(2)), NumberOf(part(3))>>

\* A comparison loop that stops after minor
compareSemverFirstTwo(a, b) ==
    LET A == parseSemver(a)
        B == parseSemver(b)
    IN  IF A[1] > B[1] THEN 1 ELSE IF A[1] < B[1] THEN -1
        ELSE IF A[2] > B[2] THEN 1 ELSE IF A[2] < B[2] THEN -1
        ELSE 0

compareSemver(a, b) ==
    LET A == parseSemver(a)
        B == parseSemver(b)
    IN  IF A[1] > B[1] THEN 1 ELSE IF A[1] < B[1] THEN -1
        ELSE IF A[2] > B[2] THEN 1 ELSE IF A[2] < B[2] THEN -1
        ELSE IF A[3] > B[3] THEN 1 ELSE IF A[3] < B[3] THEN -1
        ELSE 0

diffType(scanned, latest) ==
    LET s == parseSemver(scanned)
        l == parseSemver(latest)
    IN  IF l[1] > s[1] THEN "major"
        ELSE IF l[1] = s[1] /\ l[2] > s[2] THEN "minor"
        ELSE IF l[1] = s[1] /\ l[2] = s[2] /\ l[3] > s[3] THEN "patch"
        ELSE "none"

(* The registry's answer as child_process.exec delivers it.  exec rejects  *)
(* (curl exits non-zero): [exec |-> "error"].  Otherwise stdout is one of: *)
(* text JSON.parse throws on; the JSON text null; a JSON object whose      *)
(* version and dist-tags.latest members are each absent (Null) or a string.*)
ExecError == [exec |-> "error"]
StdoutNotJson == [exec |-> "ok", json |-> "invalid"]
StdoutJsonNull == [exec |-> "ok", json |-> "null"]
StdoutObject(version, distLatest) ==
    [exec |-> "ok", json |-> "object", version |-> version, distLatest |-> distLatest]

\* lines 46-52: latest after the try/catch around JSON.parse
LatestOf(stdout) ==
    IF stdout.json # "object" THEN ZeroVersion
    ELSE IF stdout.version # Null /\ stdout.version[1] # <<>> THEN stdout.version[1]
    ELSE IF stdout.distLatest # Null /\ stdout.distLatest[1] # <<>> THEN stdout.distLatest[1]
    ELSE ZeroVersion

\* line 45: determineIfLatestVersion rejects exactly when exec rejects
determineIfLatestVersionThrows(stdout) == stdout.exec = "error"

\* The value determineIfLatestVersion resolves to when exec resolved
determineIfLatestVersion(depName, scannedVersion, stdout) ==
    LET latest == LatestOf(stdout)
        scanned == coerceSemver(scannedVersion)
        cmp == compareSemver(scanned, latest)
    IN  [name |-> depName,
         scannedVersion |-> scanned,
         latest |-> latest,
         isLatest |-> (cmp = 0),
         isOutdated |-> (cmp < 0),
         diff |-> IF cmp < 0 THEN diffType(scanned, latest) ELSE "none"]

----------------------------------------------------------------------------
(* scanner.js: names, detectLibraries, dedupeLibs *)

Unknown == <<"u", "n", "k", "n", "o", "w", "n">>
Runtime == <<"r", "u", "n", "t", "i", "m", "e">>
RetireContent == <<"r", "e", "t", "i", "r", "e", "-", "c", "o", "n", "t", "e", "n", "t">>
Angular == <<"a", "n", "g", "u", "l", "a", "r">>
AngularJs == <<"a", "n", "g", "u", "l", "a", "r", "j", "s">>
AngularCore == <<"@", "a", "n", "g", "u", "l", "a", "r", "/", "c", "o", "r", "e">>

\* npmNameMap[n.toLowerCase()] ?? n.toLowerCase(): every entry of the map
\* but angular and angularjs maps a name to itself
toNpm(n) ==
    LET l == toLowerCase(n)
    IN  IF l = Angular THEN AngularCore
        ELSE IF l = AngularJs THEN Angular
        ELSE l

knownLibNames == <<
    <<"j", "q", "u", "e", "r", "y">>,
    <<"r", "e", "a", "c", "t">>,
    <<"r", "e", "a", "c", "t", "-", "d", "o", "m">>,
    <<"v", "u", "e">>,
    <<"a", "n", "g", "u", "l", "a", "r">>,
    <<"e", "m", "b", "e", "r">>,
    <<"b", "o", "o", "t", "s", "t", "r", "a", "p">>,
    <<"f", "o", "u", "n", "d", "a", "t", "i", "o", "n">>,
    <<"u", "i", "k", "i", "t">>,
    <<"b", "u", "l", "m", "a">>,
    <<"l", "o", "d", "a", "s", "h">>,
    <<"u", "n", "d", "e", "r", "s", "c", "o", "r", "e">>,
    <<"m", "o", "m", "e", "n", "t">>,
    <<"d", "a", "y", "j", "s">>,
    <<"r", "x", "j", "s">>,
    <<"d", "3">>,
    <<"c", "h", "a", "r", "t", ".", "j", "s">>,
    <<"h", "i", "g", "h", "c", "h", "a", "r", "t", "s">>,
    <<"t", "h", "r", "e", "e", ".", "j", "s">>,
    <<"l", "e", "a", "f", "l", "e", "t">>,
    <<"a", "x", "i", "o", "s">>
>>

\* The literal lib matches s at position i, ignoring case (flag "i")
NameAt(s, lib, i) ==
    /\ i + Len(lib) - 1 <= Len(s)
    /\ \A k \in 1..Len(lib) : LowerChar(s[i + k - 1]) = LowerChar(lib[k])

\* (\d+(?:\.\d+)+) matches s starting at position q
VersionAt(s, q) ==
    /\ q <= Len(s)
    /\ IsDigit(s[q])
    /\ LET e == DigitsEnd(s, q)
       IN  e + 2 <= Len(s) /\ s[e + 1] = "." /\ IsDigit(s[e + 2])

\* Position where the capture group starts when the whole pattern
\* lib[-.]?(\d+(?:\.\d+)+) matches at position i, else 0
CaptureStartAt(s, lib, i) ==
    IF ~NameAt(s, lib, i) THEN 0
    ELSE LET p == i + Len(lib)
         IN  IF p <= Len(s) /\ s[p] \in {"-", "."} /\ VersionAt(s, p + 1) THEN p + 1
             ELSE IF VersionAt(s, p) THEN p
             ELSE 0

\* The leftmost position at or after i where the pattern matches, else 0
RECURSIVE FirstMatchFrom(_, _, _)
FirstMatchFrom(s, lib, i) ==
    IF i > Len(s) THEN 0
    ELSE IF CaptureStartAt(s, lib, i) # 0 THEN i
    ELSE FirstMatchFrom(s, lib, i + 1)

\* regex.test(script)
RegexTest(s, lib) == FirstMatchFrom(s, lib, 1) # 0

\* The position script.match(regex) matches at: the leftmost one
MatchPos(s, lib) == FirstMatchFrom(s, lib, 1)

\* A capture group of \d+\.\d+ only
MatchVersionTwoComponents(s, lib) ==
    LET q == CaptureStartAt(s, lib, MatchPos(s, lib))
    IN  SubSeq(s, q, DottedEnd(s, DigitsEnd(s, q), 1))

\* match[1]
MatchVersion(s, lib) ==
    LET q == CaptureStartAt(s, lib, MatchPos(s, lib))
    IN  SubSeq(s, q, DottedEnd(s, DigitsEnd(s, q), Len(s)))

\* lib.charAt(0).toUpperCase() + lib.slice(1)
Capitalise(lib) ==
    IF lib = <<>> THEN lib ELSE <<UpperChar(lib[1])>> \o Suffix(lib, 2)

\* The candidates one script contributes: the inner loop over catalog
\* entries k, k+1, ...
RECURSIVE DetectInScript(_, _)
DetectInScript(script, k) ==
    IF k > Len(knownLibNames) THEN <<>>
    ELSE LET lib == knownLibNames[k]
         IN  (IF RegexTest(script, lib)
              THEN <<[name |-> Capitalise(lib),
                      version |-> MatchVersion(script, lib),
                      source |-> script]>>
              ELSE <<>>) \o DetectInScript(script, k + 1)

RECURSIVE detectLibraries(_)
detectLibraries(ss) ==
    IF ss = <<>> THEN <<>>
    ELSE DetectInScript(Head(ss), 1) \o detectLibraries(Tail(ss))

\* const key = (n) => n.name.toLowerCase()
key(n) == toLowerCase(n.name)

haveVer(x) == x.version # <<>> /\ x.version # Unknown

\* The replacement rule without its runtime clause
ReplacesVersionOnly(existing, lib) == ~haveVer(existing) /\ haveVer(lib)

\* Whether the incoming lib replaces the retained one (lines 154 and 156)
Replaces(existing, lib) ==
    \/ ~haveVer(existing) /\ haveVer(lib)
    \/ existing.source # Runtime /\ lib.source = Runtime

\* An iteration that never finds the retained candidate
DedupeStepNoKey(map, lib) == Append(map, lib)

\* One iteration of the loop: map is the Map's values in insertion order
\* (Map.set of a present key keeps the key's place)

DedupeStep(map, lib) ==
    IF \A i \in 1..Len(map) : key(map[i]) # key(lib)
    THEN Append(map, lib)
    ELSE LET i == CHOOSE j \in 1..Len(map) : key(map[j]) = key(lib)
         IN  IF Replaces(map[i], lib) THEN [map EXCEPT ![i] = lib] ELSE map

RECURSIVE DedupeFrom(_, _)
DedupeFrom(map, rest) ==
    IF rest = <<>> THEN map
    ELSE DedupeFrom(DedupeStep(map, Head(rest)), Tail(rest))

dedupeLibs(ls) == DedupeFrom(<<>>, ls)

----------------------------------------------------------------------------
(* utils/vulnCheck.js and scanner.js enrichLib *)

\* Array.prototype.slice(0, 5)
SliceLimit == 5
Slice5(s) == SubSeq(s, 1, Min(Len(s), SliceLimit))

(* What queryOsvNpmVulns settles to: it rejects, [query |-> "error"], or   *)
(* resolves to {vulns}, a list of advisories [id, cves, severity, summary],*)
(* cves being the aliases that start with "CVE-".                          *)
OsvError == [query |-> "error"]
OsvVulns(vulns) == [query |-> "ok", vulns |-> vulns]

\* The value determineVulnerabilities resolves to when the query resolved
determineVulnerabilities(depName, scannedVersion, osv) ==
    [name |-> depName,
     version |-> scannedVersion,
     vulnCount |-> Len(osv.vulns),
     vulns |-> Slice5(osv.vulns)]

\* x => ({ id: first CVE alias || x.id, cves, severity, summary })
ReduceVuln(x) ==
    [id |-> IF x.cves # <<>> THEN x.cves[1] ELSE x.id,
     cves |-> x.cves,
     severity |-> x.severity,
     summary |-> x.summary]

\* lines 31 and 34-41: the fields the first try block leaves
VersionFields(pkg, lib, reg) ==
    IF determineIfLatestVersionThrows(reg)
    THEN [latest |-> Null, outdated |-> Null, diff |-> "unknown"]
    ELSE LET r == determineIfLatestVersion(pkg, lib.version, reg)
         IN  [latest |-> Some(r.latest), outdated |-> Some(r.isOutdated), diff |-> r.diff]

\* lines 32 and 43-56: the fields the second try block leaves
VulnFields(pkg, lib, osv) ==
    IF osv.query = "error"
    THEN [vulnCount |-> Null, vulns |-> <<>>]
    ELSE LET v == determineVulnerabilities(pkg, lib.version, osv)
             cut == Slice5(v.vulns)
         IN  [vulnCount |-> Some(v.vulnCount),
              vulns |-> [i \in 1..Len(cut) |-> ReduceVuln(cut[i])]]

\* The value enrichLib resolves to, given what the two resolvers settled to:
\* { ...lib, npm: pkg, latest, outdated, diff, vulnCount, vulns }
enrichLib(lib, reg, osv) ==
    LET pkg == toNpm(lib.name)
    IN  ([npm |-> pkg] @@ VersionFields(pkg, lib, reg) @@ VulnFields(pkg, lib, osv)) @@ lib

----------------------------------------------------------------------------
(* scanner.js scan: inputs *)

MaxScripts == 1

UrlVue == <<"/", "v", "u", "e", "-", "2", ".", "6", ".", "j", "s">>
UrlApp == <<"/", "a", "p", "p", ".", "j", "s">>
ScriptUrls == {UrlVue, UrlApp}

RECURSIVE SeqsUpTo(_, _)
SeqsUpTo(S, n) ==
    IF n = 0 THEN {<<>>}
    ELSE LET shorter == SeqsUpTo(S, n - 1)
         IN  shorter \cup {Append(s, x) : s \in shorter, x \in S}

ScriptLists == SeqsUpTo(ScriptUrls, MaxScripts)

JQueryRuntime ==
    [name |-> <<"j", "q", "u", "e", "r", "y">>,
     version |-> <<"3", ".", "5", ".", "1">>,
     source |-> Runtime]

\* What runtimeDetect resolves to: { libs, jsUrls }
RuntimeResults ==
    {[libs |-> <<>>, jsUrls |-> <<>>],
     [libs |-> <<JQueryRuntime>>, jsUrls |-> <<UrlApp>>]}

\* Array.from(new Set(xs)): first occurrences, in order
RECURSIVE Unique(_)
Unique(xs) ==
    IF xs = <<>> THEN <<>>
    ELSE LET init == Unique(SubSeq(xs, 1, Len(xs) - 1))
             last == xs[Len(xs)]
         IN  IF \E i \in 1..Len(init) : init[i] = last THEN init ELSE Append(init, last)

\* A content hit of the signature database for the vue detector on url u
RetireHit(u) ==
    [name |-> <<"v", "u", "e">>,
     version |-> Unknown,
     source |-> RetireContent,
     url |-> u,
     retireVulns |-> <<>>]

\* What detectWithRetire(candidateJs) may resolve to
RetireResults(candidateJs) ==
    {<<>>} \cup {<<RetireHit(candidateJs[i])>> : i \in 1..Min(Len(candidateJs), 1)}

EnrichTimeoutMs == 4000
ResolverDurations == {1000, 3000}
\* How long a resolver call takes: Some(ms), or Null when it never settles
Durations == {Some(d) : d \in ResolverDurations} \cup {Null}

RegistryAnswers ==
    {ExecError, StdoutObject(Some(<<"3", ".", "0", ".", "0">>), Null)}

Advisory ==
    [id |-> "GHSA-1", cves |-> <<"CVE-1">>, severity |-> "HIGH", summary |-> "xss"]
OsvAnswers == {OsvError, OsvVulns(<<Advisory>>)}

Certificate == [daysLeft |-> 30]

----------------------------------------------------------------------------
(* scanner.js scan *)

NoOutcomes ==
    [fetch |-> "pending", runtime |-> "pending", retire |-> "pending", tls |-> "pending"]

NewTask ==
    [stage |-> "version", elapsed |-> 0, reg |-> Null, osv |-> Null,
     late |-> Null, value |-> Null]

Init ==
    /\ pc = "fetchPage"
    /\ scripts = <<>>
    /\ runtimeLibs = <<>>
    /\ jsUrls = <<>>
    /\ retireHits = <<>>
    /\ libs = <<>>
    /\ tasks = <<>>
    /\ finalLibs = <<>>
    /\ tlsExpiry = Null
    /\ report = Null
    /\ outcomes = NoOutcomes
    /\ fnIn = Null
    /\ fnOut = Null
    /\ CallsIdle

\* line 174: fetchPage resolves
FetchPageOk(ss) ==
    /\ pc = "fetchPage"
    /\ scripts' = ss
    /\ outcomes' = [outcomes EXCEPT !.fetch = "ok"]
    /\ pc' = "runtimeDetect"
    /\ UNCHANGED <<runtimeLibs, jsUrls, retireHits, libs, tasks, finalLibs,
                   tlsExpiry, report, fnIn, fnOut, callVars>>

\* line 174: fetchPage rejects; scan rejects and logs nothing
FetchPageFail ==
    /\ pc = "fetchPage"
    /\ outcomes' = [outcomes EXCEPT !.fetch = "error"]
    /\ pc' = "fatal"
    /\ UNCHANGED <<scripts, runtimeLibs, jsUrls, retireHits, libs, tasks, finalLibs,
                   tlsExpiry, report, fnIn, fnOut, callVars>>

\* lines 177-180: runtimeDetect resolves before the 20 s timer
RuntimeDetectOk(r) ==
    /\ pc = "runtimeDetect"
    /\ runtimeLibs' = r.libs
    /\ jsUrls' = r.jsUrls
    /\ outcomes' = [outcomes EXCEPT !.runtime = "ok"]
    /\ pc' = "detectWithRetire"
    /\ UNCHANGED <<scripts, retireHits, libs, tasks, finalLibs, tlsExpiry, report,
                   fnIn, fnOut, callVars>>

\* Runtime detection awaited without try/catch: its failure ends scan
RuntimeDetectFailFatal(how) ==
    /\ pc = "runtimeDetect"
    /\ how \in {"error", "timeout"}
    /\ outcomes' = [outcomes EXCEPT !.runtime = how]
    /\ pc' = "fatal"
    /\ UNCHANGED <<scripts, runtimeLibs, jsUrls, retireHits, libs, tasks, finalLibs,
                   tlsExpiry, report, fnIn, fnOut, callVars>>

\* lines 177-180: runtimeDetect rejects, or the timer rejects first
RuntimeDetectFail(how) ==
    /\ pc = "runtimeDetect"
    /\ how \in {"error", "timeout"}
    /\ outcomes' = [outcomes EXCEPT !.runtime = how]
    /\ pc' = "detectWithRetire"
    /\ UNCHANGED <<scripts, runtimeLibs, jsUrls, retireHits, libs, tasks, finalLibs,
                   tlsExpiry, report, fnIn, fnOut, callVars>>

\* lines 190-199, run in the same turn once the signature phase has settled
\* with hits: merge the three lists and start one enrichment per library
MergeAndStart(hits) ==
    LET staticLibs == detectLibraries(scripts)
        merged == dedupeLibs(staticLibs \o runtimeLibs \o hits)
    IN  /\ retireHits' = hits
        /\ libs' = merged
        /\ tasks' = [i \in 1..Len(merged) |-> NewTask]
        /\ pc' = "enrich"

\* lines 183-186: detectWithRetire resolves before the 15 s timer
DetectWithRetireOk(hits) ==
    /\ pc = "detectWithRetire"
    /\ hits \in RetireResults(Unique(scripts \o jsUrls))
    /\ MergeAndStart(hits)
    /\ outcomes' = [outcomes EXCEPT !.retire = "ok"]
    /\ UNCHANGED <<scripts, runtimeLibs, jsUrls, finalLibs, tlsExpiry, report,
                   fnIn, fnOut, callVars>>

\* lines 187-189: the 15 s timer rejects first
DetectWithRetireTimeout ==
    /\ pc = "detectWithRetire"
    /\ MergeAndStart(<<>>)
    /\ outcomes' = [outcomes EXCEPT !.retire = "timeout"]
    /\ UNCHANGED <<scripts, runtimeLibs, jsUrls, finalLibs, tlsExpiry, report,
                   fnIn, fnOut, callVars>>

ScanUnchangedByTask ==
    UNCHANGED <<pc, scripts, runtimeLibs, jsUrls, retireHits, libs, finalLibs,
                tlsExpiry, report, outcomes, fnIn, fnOut, callVars>>

\* enrichLib lines 34-41 of task i: the registry call settles to reg after
\* d ms, before the task's 4 s timer
VersionResolverSettles(i, reg, d) ==
    /\ pc = "enrich"
    /\ i \in 1..Len(tasks)
    /\ tasks[i].stage = "version"
    /\ tasks[i].elapsed + d < EnrichTimeoutMs
    /\ tasks' = [tasks EXCEPT ![i] =
                    [@ EXCEPT !.stage = "vuln", !.elapsed = @ + d, !.reg = Some(reg)]]
    /\ ScanUnchangedByTask

\* enrichLib lines 43-58 of task i: the vulnerability query settles to osv
\* after d ms and enrichLib resolves, no later than the task's timer
VulnResolverSettles(i, osv, d) ==
    /\ pc = "enrich"
    /\ i \in 1..Len(tasks)
    /\ tasks[i].stage = "vuln"
    /\ tasks[i].elapsed + d <= EnrichTimeoutMs
    /\ tasks' = [tasks EXCEPT ![i] =
                    [@ EXCEPT !.stage = "fulfilled", !.elapsed = @ + d,
                              !.osv = Some(osv),
                              !.value = Some(enrichLib(libs[i], tasks[i].reg[1], osv))]]
    /\ ScanUnchangedByTask

\* line 199, withTimeout(p, 4000) and p.catch(() => null) of task i: the
\* timer rejects while a resolver is still pending; late is how long that
\* resolver takes (Null: it never settles).  A resolver due in the timer's
\* own millisecond may come first or second.
EnrichTimeout(i, late) ==
    /\ pc = "enrich"
    /\ i \in 1..Len(tasks)
    /\ tasks[i].stage \in {"version", "vuln"}
    /\ late \in Durations
    /\ late # Null => tasks[i].elapsed + late[1] >= EnrichTimeoutMs
    /\ tasks' = [tasks EXCEPT ![i] =
                    [@ EXCEPT !.stage = IF @ = "version" THEN "timeout:version"
                                        ELSE "timeout:vuln",
                              !.late = late]]
    /\ ScanUnchangedByTask

Settled(task) == task.stage \notin {"version", "vuln"}

\* enrichedLibs.filter(Boolean) over the slots Promise.all collected
RECURSIVE FilterBoolean(_)
FilterBoolean(slots) ==
    IF slots = <<>> THEN <<>>
    ELSE (IF Head(slots) = Null THEN <<>> ELSE <<Head(slots)[1]>>)
         \o FilterBoolean(Tail(slots))

\* lines 199-203: Promise.all resolves once every task has settled;
\* finalLibs is computed and the TLS check starts
EnrichJoin ==
    /\ pc = "enrich"
    /\ \A i \in 1..Len(tasks) : Settled(tasks[i])
    /\ finalLibs' = FilterBoolean([i \in 1..Len(tasks) |-> tasks[i].value])
    /\ pc' = "tls"
    /\ UNCHANGED <<scripts, runtimeLibs, jsUrls, retireHits, libs, tasks,
                   tlsExpiry, report, outcomes, fnIn, fnOut, callVars>>

\* lines 205-217: the report scan logs
BuildReport(libraries, tls) == [libraries |-> libraries, tls |-> tls]

\* lines 202-217: getTlsExpiry settles or the 5 s timer rejects first, and
\* the report is logged.  how = "ok": resolved to cert (Null: the peer sent
\* no certificate); "error": the socket failed; "timeout": the timer won
TlsSettles(how, cert) ==
    /\ pc = "tls"
    /\ how \in {"ok", "error", "timeout"}
    /\ cert \in {Null, Some(Certificate)}
    /\ how # "ok" => cert = Null
    /\ tlsExpiry' = cert
    /\ outcomes' = [outcomes EXCEPT !.tls = how]
    /\ report' = Some(BuildReport(finalLibs, tlsExpiry'))
    /\ pc' = "done"
    /\ UNCHANGED <<scripts, runtimeLibs, jsUrls, retireHits, libs, tasks,
                   finalLibs, fnIn, fnOut, callVars>>

Next ==
    \/ \E ss \in ScriptLists : FetchPageOk(ss)
    \/ FetchPageFail
    \/ \E r \in RuntimeResults : RuntimeDetectOk(r)
    \/ \E how \in {"error", "timeout"} : RuntimeDetectFail(how)
    \/ \E hits \in RetireResults(Unique(scripts \o jsUrls)) : DetectWithRetireOk(hits)
    \/ DetectWithRetireTimeout
    \/ \E i \in 1..Len(tasks), reg \in RegistryAnswers, d \in ResolverDurations :
          VersionResolverSettles(i, reg, d)
    \/ \E i \in 1..Len(tasks), osv \in OsvAnswers, d \in ResolverDurations :
          VulnResolverSettles(i, osv, d)
    \/ \E i \in 1..Len(tasks), late \in Durations : EnrichTimeout(i, late)
    \/ EnrichJoin
    \/ \E how \in {"ok", "error", "timeout"}, cert \in {Null, Some(Certificate)} :
          TlsSettles(how, cert)

Spec == Init /\ [][Next]_vars

\* line 174, fetch(targetUrl) without any timer: the page fetch never
\* settles and scan stays suspended at its first await
FetchPageNeverSettles ==
    /\ pc = "fetchPage"
    /\ outcomes' = [outcomes EXCEPT !.fetch = "never"]
    /\ pc' = "fetchPage:never"
    /\ UNCHANGED <<scripts, runtimeLibs, jsUrls, retireHits, libs, tasks, finalLibs,
                   tlsExpiry, report, fnIn, fnOut, callVars>>

NextLive == Next \/ FetchPageNeverSettles

\* scan with every external call free to never settle.  Only what the event
\* loop itself guarantees is assumed: a pending timer of withTimeout fires
\* (lines 177, 185, 199, 203) and Promise.all resumes scan once every
\* enrichment promise has settled.  No external call is assumed to settle.
SpecLive ==
    /\ Init
    /\ [][NextLive]_vars
    /\ WF_vars(RuntimeDetectFail("timeout"))
    /\ WF_vars(DetectWithRetireTimeout)
    /\ WF_vars(\E i \in 1..Len(tasks) : EnrichTimeout(i, Null))
    /\ WF_vars(EnrichJoin)
    /\ WF_vars(TlsSettles("timeout", Null))

----------------------------------------------------------------------------
(* dedupeLibs on its own: every list of at most MaxLibs candidates *)

MaxLibs == 3

CandidateNames == {<<"V", "u", "e">>, <<"v", "u", "e">>, <<"D", "3">>}
ConcreteVersion == <<"1", ".", "2">>
CandidateVersions == {Unknown, ConcreteVersion}
CandidateSources == {UrlVue, Runtime, RetireContent}
Candidates == [name : CandidateNames, version : CandidateVersions, source : CandidateSources]

ScanIdle ==
    /\ scripts = <<>>
    /\ runtimeLibs = <<>>
    /\ jsUrls = <<>>
    /\ retireHits = <<>>
    /\ libs = <<>>
    /\ tasks = <<>>
    /\ finalLibs = <<>>
    /\ tlsExpiry = Null
    /\ report = Null
    /\ outcomes = NoOutcomes
    /\ CallsIdle

ScanUntouched ==
    UNCHANGED <<scripts, runtimeLibs, jsUrls, retireHits, libs, tasks, finalLibs,
                tlsExpiry, report, outcomes, callVars>>

InitDedupe ==
    /\ pc = "dedupeLibs"
    /\ fnIn \in SeqsUpTo(Candidates, MaxLibs)
    /\ fnOut = Null
    /\ ScanIdle

DedupeLibsCall ==
    /\ pc = "dedupeLibs"
    /\ fnOut' = dedupeLibs(fnIn)
    /\ pc' = "dedupeLibs:done"
    /\ UNCHANGED fnIn
    /\ ScanUntouched

NextDedupe == DedupeLibsCall

SpecDedupe == InitDedupe /\ [][NextDedupe]_vars

----------------------------------------------------------------------------
(* determineIfLatestVersion and enrichLib on their own *)

MaxComponents == 3

ComponentStrings == {<<"0">>, <<"1">>, <<"2">>, <<"3">>, <<"1", "0">>}

\* The components joined by "."
RECURSIVE JoinDots(_)
JoinDots(cs) ==
    IF Len(cs) = 1 THEN cs[1]
    ELSE cs[1] \o <<".">> \o JoinDots(Tail(cs))

ScannedVersions ==
    {JoinDots(cs) : cs \in SeqsUpTo(ComponentStrings, MaxComponents) \ {<<>>}}
    \cup {Unknown,
          <<"v", "1", ".", "2", ".", "3">>,
          <<"3", ".", "5", ".", "1", ".">>}

V123 == <<"1", ".", "2", ".", "3">>
V129 == <<"1", ".", "2", ".", "9">>
V130 == <<"1", ".", "3", ".", "0">>
V200 == <<"2", ".", "0", ".", "0">>

LatestVersions ==
    {V123, V129, V130, V200, ZeroVersion,
     <<"1", ".", "2">>, <<"1", "0", ".", "1", ".", "0">>, <<"3">>}

ResolveRegistryAnswers ==
    {ExecError, StdoutNotJson, StdoutJsonNull, StdoutObject(Null, Null),
     StdoutObject(Null, Some(V200)), StdoutObject(Some(<<>>), Some(V123))}
    \cup {StdoutObject(Some(l), Null) : l \in LatestVersions}

SixAdvisories ==
    [i \in 1..6 |-> [id |-> "GHSA", cves |-> IF i = 1 THEN <<>> ELSE <<"CVE">>,
                     severity |-> "HIGH", summary |-> "xss"]]
ResolveOsvAnswers == {OsvError, OsvVulns(<<>>), OsvVulns(SixAdvisories)}

InitResolve ==
    /\ pc = "resolve"
    /\ fnIn \in [lib : [name : {<<"V", "u", "e">>}, version : ScannedVersions,
                        source : {UrlVue}],
                 reg : ResolveRegistryAnswers,
                 osv : ResolveOsvAnswers]
    /\ fnOut = Null
    /\ ScanIdle

\* determineIfLatestVersion(toNpm(lib.name), lib.version) with the registry
\* answering fnIn.reg
DetermineIfLatestVersionCall ==
    /\ pc = "resolve"
    /\ fnOut' = IF determineIfLatestVersionThrows(fnIn.reg)
                THEN [threw |-> TRUE]
                ELSE [threw |-> FALSE,
                      value |-> determineIfLatestVersion(toNpm(fnIn.lib.name),
                                                         fnIn.lib.version, fnIn.reg)]
    /\ pc' = "determineIfLatestVersion:done"
    /\ UNCHANGED fnIn
    /\ ScanUntouched

\* enrichLib(lib) with the registry answering fnIn.reg and OSV fnIn.osv
EnrichLibCall ==
    /\ pc = "resolve"
    /\ fnOut' = enrichLib(fnIn.lib, fnIn.reg, fnIn.osv)
    /\ pc' = "enrichLib:done"
    /\ UNCHANGED fnIn
    /\ ScanUntouched

NextResolve == DetermineIfLatestVersionCall \/ EnrichLibCall

SpecResolve == InitResolve /\ [][NextResolve]_vars

----------------------------------------------------------------------------
(* detectLibraries on its own: one script URL <prefix><name>-<v>.min.js *)

MaxPrefixLen == 5

PrefixChars == {"D", "3", "1", "."}
FileNames == {<<"d", "3">>, <<"v", "u", "e">>}
FileVersions == {<<"7", ".", "8">>, V123}
MinJs == <<".", "m", "i", "n", ".", "j", "s">>

InitStatic ==
    /\ pc = "detectLibraries"
    /\ fnIn \in [prefix : SeqsUpTo(PrefixChars, MaxPrefixLen),
                 name : FileNames,
                 v : FileVersions]
    /\ fnOut = Null
    /\ ScanIdle

\* The script URL the input describes
ScriptUrlOf(in) == in.prefix \o in.name \o <<"-">> \o in.v \o MinJs

DetectLibrariesCall ==
    /\ pc = "detectLibraries"
    /\ fnOut' = detectLibraries(<<ScriptUrlOf(fnIn)>>)
    /\ pc' = "detectLibraries:done"
    /\ UNCHANGED fnIn
    /\ ScanUntouched

NextStatic == DetectLibrariesCall

SpecStatic == InitStatic /\ [][NextStatic]_vars

----------------------------------------------------------------------------
(* utils/runtimeDetect.js runtimeDetect, step by step, under the runtime   *)
(* phase of scan (lines 176-180): scan waits at pc = "runtimeDetect" for   *)
(* the call or for its 20 s timer, whichever settles first.  A call that   *)
(* lost the race is not cancelled: its remaining steps still run.          *)

\* How an awaited puppeteer call ends: it resolves, it rejects, or it never
\* settles
CallOutcomes == {"ok", "error", "never"}

VueRuntimeEntry == [name |-> <<"v", "u", "e">>, version |-> <<"2", ".", "6">>]
JQueryRuntimeEntry ==
    [name |-> <<"j", "q", "u", "e", "r", "y">>, version |-> <<"3", ".", "5", ".", "1">>]

\* What the probe of lines 34-44 may return: Object.entries(runtimeMap)
RuntimeMaps == {<<>>, <<JQueryRuntimeEntry>>, <<JQueryRuntimeEntry, VueRuntimeEntry>>}

\* What the resource list of lines 47-52 may return
ResourceLists == {<<>>, <<UrlApp>>}

\* lines 57-59: one runtime candidate per entry of runtimeMap
RuntimeLibsOf(runtimeMap) ==
    [i \in 1..Len(runtimeMap) |->
        [name |-> runtimeMap[i].name, version |-> runtimeMap[i].version,
         source |-> Runtime]]

\* The call as scan starts it (line 177): about to launch the browser
NewRuntimeCall ==
    [at |-> "launch", state |-> "running", nav |-> "pending",
     runtimeMap |-> <<>>, jsUrls |-> <<>>]

InitRuntime ==
    /\ pc = "runtimeDetect"
    /\ scripts \in ScriptLists
    /\ runtimeLibs = <<>>
    /\ jsUrls = <<>>
    /\ retireHits = <<>>
    /\ libs = <<>>
    /\ tasks = <<>>
    /\ finalLibs = <<>>
    /\ tlsExpiry = Null
    /\ report = Null
    /\ outcomes = [NoOutcomes EXCEPT !.fetch = "ok"]
    /\ fnIn = Null
    /\ fnOut = Null
    /\ browser = "none"
    /\ rd = NewRuntimeCall
    /\ pass = Null
    /\ fetched = <<>>
    /\ clock = 0

RuntimeAt(step) == rd.at = step /\ rd.state = "running"

RuntimePhaseUntouched ==
    UNCHANGED <<scripts, retireHits, libs, tasks, finalLibs, tlsExpiry, report,
                fnIn, fnOut, pass, fetched, clock>>

ScanKeepsWaiting == UNCHANGED <<pc, runtimeLibs, jsUrls, outcomes>>

\* scan lines 177-180 when the call settles: if scan is still waiting, the
\* result is taken (or the rejection swallowed) and scan goes on; if the
\* timer already won, the settlement is ignored
ScanSeesRuntimeSettle(how, r) ==
    IF pc = "runtimeDetect"
    THEN /\ pc' = "detectWithRetire"
         /\ outcomes' = [outcomes EXCEPT !.runtime = how]
         /\ runtimeLibs' = IF how = "ok" THEN r.libs ELSE runtimeLibs
         /\ jsUrls' = IF how = "ok" THEN r.jsUrls ELSE jsUrls
    ELSE ScanKeepsWaiting

\* An awaited call outside any try/catch: resolved, the call goes on to the
\* next step; rejected, runtimeDetect rejects there and then; never settled,
\* runtimeDetect stays at this step for good
AwaitUnguarded(how, next) ==
    /\ how \in CallOutcomes
    /\ rd' = [rd EXCEPT !.at = IF how = "ok" THEN next ELSE @,
                        !.state = CASE how = "ok" -> "running"
                                    [] how = "error" -> "rejected"
                                    [] OTHER -> "stalled"]
    /\ IF how = "error" THEN ScanSeesRuntimeSettle("error", Null)
       ELSE ScanKeepsWaiting

\* line 5: puppeteer.launch
Launch(how) ==
    /\ RuntimeAt("launch")
    /\ AwaitUnguarded(how, "newPage")
    /\ browser' = IF how = "ok" THEN "open" ELSE browser
    /\ RuntimePhaseUntouched

\* line 9: browser.newPage
NewPage(how) ==
    /\ RuntimeAt("newPage")
    /\ AwaitUnguarded(how, "setRequestInterception")
    /\ UNCHANGED browser
    /\ RuntimePhaseUntouched

\* lines 12-19: page.setRequestInterception and the request handler
SetRequestInterception(how) ==
    /\ RuntimeAt("setRequestInterception")
    /\ AwaitUnguarded(how, "setUserAgent")
    /\ UNCHANGED browser
    /\ RuntimePhaseUntouched

\* lines 21-24: page.setUserAgent
SetUserAgent(how) ==
    /\ RuntimeAt("setUserAgent")
    /\ AwaitUnguarded(how, "goto")
    /\ UNCHANGED browser
    /\ RuntimePhaseUntouched

\* lines 26-29: page.goto under its own 15 s timeout; a rejection is swallowed
Goto(how) ==
    /\ RuntimeAt("goto")
    /\ how \in {"ok", "error"}
    /\ rd' = [rd EXCEPT !.at = "waitForTimeout", !.nav = how]
    /\ ScanKeepsWaiting
    /\ UNCHANGED browser
    /\ RuntimePhaseUntouched

\* line 32: page.waitForTimeout(1200); a rejection is swallowed
WaitForTimeout(how) ==
    /\ RuntimeAt("waitForTimeout")
    /\ how \in {"ok", "error"}
    /\ rd' = [rd EXCEPT !.at = "evaluateProbe"]
    /\ ScanKeepsWaiting
    /\ UNCHANGED browser
    /\ RuntimePhaseUntouched

\* lines 34-45: the probe; a rejection becomes {}
EvaluateProbe(how, runtimeMap) ==
    /\ RuntimeAt("evaluateProbe")
    /\ how \in CallOutcomes
    /\ runtimeMap \in RuntimeMaps
    /\ how # "ok" => runtimeMap = <<>>
    /\ rd' = [rd EXCEPT !.at = IF how = "never" THEN @ ELSE "evaluateResources",
                        !.state = IF how = "never" THEN "stalled" ELSE "running",
                        !.runtimeMap = runtimeMap]
    /\ ScanKeepsWaiting
    /\ UNCHANGED browser
    /\ RuntimePhaseUntouched

\* lines 47-53: the resource list; a rejection becomes []
EvaluateResources(how, urls) ==
    /\ RuntimeAt("evaluateResources")
    /\ how \in CallOutcomes
    /\ urls \in ResourceLists
    /\ how # "ok" => urls = <<>>
    /\ rd' = [rd EXCEPT !.at = IF how = "never" THEN @ ELSE "close",
                        !.state = IF how = "never" THEN "stalled" ELSE "running",
                        !.jsUrls = urls]
    /\ ScanKeepsWaiting
    /\ UNCHANGED browser
    /\ RuntimePhaseUntouched

\* line 55: browser.close
BrowserClose(how) ==
    /\ RuntimeAt("close")
    /\ AwaitUnguarded(how, "return")
    /\ browser' = IF how = "ok" THEN "closed" ELSE browser
    /\ RuntimePhaseUntouched

\* lines 57-60: runtimeDetect resolves to { libs, jsUrls }
RuntimeReturn ==
    /\ RuntimeAt("return")
    /\ rd' = [rd EXCEPT !.state = "resolved"]
    /\ ScanSeesRuntimeSettle("ok", [libs |-> RuntimeLibsOf(rd.runtimeMap),
                                    jsUrls |-> rd.jsUrls])
    /\ UNCHANGED browser
    /\ RuntimePhaseUntouched

\* scan line 177, withTimeout(.., 20000): the timer rejects while the call
\* has not settled; scan swallows it and goes on, the call is left running
RuntimeTimerFires ==
    /\ pc = "runtimeDetect"
    /\ rd.state \in {"running", "stalled"}
    /\ pc' = "detectWithRetire"
    /\ outcomes' = [outcomes EXCEPT !.runtime = "timeout"]
    /\ UNCHANGED <<runtimeLibs, jsUrls, browser, rd>>
    /\ RuntimePhaseUntouched

NextRuntime ==
    \/ \E how \in CallOutcomes : Launch(how)
    \/ \E how \in CallOutcomes : NewPage(how)
    \/ \E how \in CallOutcomes : SetRequestInterception(how)
    \/ \E how \in CallOutcomes : SetUserAgent(how)
    \/ \E how \in {"ok", "error"} : Goto(how)
    \/ \E how \in {"ok", "error"} : WaitForTimeout(how)
    \/ \E how \in CallOutcomes, runtimeMap \in RuntimeMaps : EvaluateProbe(how, runtimeMap)
    \/ \E how \in CallOutcomes, urls \in ResourceLists : EvaluateResources(how, urls)
    \/ \E how \in CallOutcomes : BrowserClose(how)
    \/ RuntimeReturn
    \/ RuntimeTimerFires

\* Every step that can be taken is eventually taken: the event loop runs the
\* continuation of a settled call, and a pending timer fires
SpecRuntime == InitRuntime /\ [][NextRuntime]_vars /\ WF_vars(NextRuntime)

----------------------------------------------------------------------------
(* utils/retireDetect.js detectWithRetire, step by step, under the         *)
(* signature phase of scan (lines 182-189): scan waits at                  *)
(* pc = "detectWithRetire" for the pass or for its 15 s timer.  The        *)
(* signature database (retire-js-repo.json) is data: the model takes two   *)
(* entries, each with one filename pattern <libName>[-.]?(<version>) and   *)
(* one content pattern.                                                    *)

MAX_FILES == 6
REQ_TIMEOUT_MS == 7000
RetireTimeoutMs == 15000
MaxUrlLength == 200
MaxVersionDots == 3

RetireUrl == <<"r", "e", "t", "i", "r", "e", "-", "u", "r", "l">>

DETECTORS ==
    <<[libName |-> <<"v", "u", "e">>, vulns |-> <<>>],
      [libName |-> <<"j", "q", "u", "e", "r", "y">>, vulns |-> <<>>]>>

MaxUrls == 2

UrlMain == <<"/", "m", "a", "i", "n", ".", "j", "s">>
UrlCss == <<"/", "a", ".", "c", "s", "s">>
PageUrls == {UrlVue, UrlApp, UrlMain, UrlCss}

\* The word w occurs in s, ignoring case
Contains(s, w) == \E i \in 1..Len(s) : NameAt(s, w, i)

\* line 57: /\.js(\?|$)/i
IsJsUrl(u) ==
    \E i \in 1..Len(u) :
        /\ NameAt(u, <<".", "j", "s">>, i)
        /\ (i + 3 > Len(u) \/ u[i + 3] = "?")

BundleKeywords ==
    {<<"m", "a", "i", "n">>, <<"v", "e", "n", "d", "o", "r">>,
     <<"b", "u", "n", "d", "l", "e">>, <<"a", "p", "p">>,
     <<"r", "u", "n", "t", "i", "m", "e">>,
     <<"p", "o", "l", "y", "f", "i", "l", "l", "s">>,
     <<"c", "h", "u", "n", "k">>, <<"c", "l", "i", "e", "n", "t">>}

\* line 58: a bundle keyword, or shorter than 200 characters
IsLikelyBundle(u) ==
    (\E w \in BundleKeywords : Contains(u, w)) \/ Len(u) < MaxUrlLength

\* Array.prototype.filter
RECURSIVE FilterCandidates(_)
FilterCandidates(urls) ==
    IF urls = <<>> THEN <<>>
    ELSE (IF IsJsUrl(Head(urls)) /\ IsLikelyBundle(Head(urls)) THEN <<Head(urls)>>
          ELSE <<>>) \o FilterCandidates(Tail(urls))

\* lines 56-59: candidates
CandidatesOf(urls) ==
    LET kept == FilterCandidates(Unique(urls))
    IN  SubSeq(kept, 1, Min(Len(kept), MAX_FILES))

\* line 66: fileHit
FileHit(det, u) == RegexTest(u, det.libName)

\* lines 35-45, extractVersionFromUrl: the \d+(?:\.\d+){1,3} token of the
\* captured group, Null when the pattern does not match
extractVersionFromUrl(u, det) ==
    IF ~FileHit(det, u) THEN Null
    ELSE LET q == CaptureStartAt(u, det.libName, MatchPos(u, det.libName))
         IN  Some(SubSeq(u, q, DottedEnd(u, DigitsEnd(u, q), MaxVersionDots)))

\* A fetched script body, as the content patterns see it: the library whose
\* content pattern matches it (<<>>: none) and the version token its capture
\* group holds (Null: none)
BodyPlain == [lib |-> <<>>, version |-> Null]
BodyVue == [lib |-> <<"v", "u", "e">>, version |-> Null]
BodyVueVersion == [lib |-> <<"v", "u", "e">>, version |-> Some(<<"2", ".", "6">>)]
Bodies == {BodyPlain, BodyVue, BodyVueVersion}

\* How a call of fetchText ends: it returns the text; it throws (network
\* error, or !res.ok); the 7 s timer around fetch() rejects; or
\* res.arrayBuffer(), which no timer guards, never settles
FetchOutcomes == {"ok", "error", "timeout", "never"}

\* ms a fetch that settles by itself takes
FetchMs == 1000

FetchDuration(how) == IF how = "timeout" THEN REQ_TIMEOUT_MS ELSE FetchMs

\* lines 90-103: the hit pushed for detector det on candidate u
HitOf(det, u, fileHit, version) ==
    [name |-> det.libName,
     version |-> IF version = Null THEN Unknown ELSE version[1],
     source |-> IF fileHit THEN RetireUrl ELSE RetireContent,
     url |-> u,
     retireVulns |-> det.vulns]

\* lines 108-115: the first hit of each (name, version) pair
RECURSIVE DedupeHits(_)
DedupeHits(hits) ==
    IF hits = <<>> THEN <<>>
    ELSE LET init == DedupeHits(SubSeq(hits, 1, Len(hits) - 1))
             r == hits[Len(hits)]
         IN  IF \E i \in 1..Len(init) :
                    init[i].name = r.name /\ init[i].version = r.version
             THEN init
             ELSE Append(init, r)

\* The pass as scan starts it (line 185)
NewPass(urls) ==
    [state |-> "running", candidates |-> CandidatesOf(urls), u |-> 1, det |-> 1,
     hits |-> <<>>]

InitRetire ==
    /\ pc = "detectWithRetire"
    /\ scripts \in SeqsUpTo(PageUrls, MaxUrls)
    /\ runtimeLibs = <<>>
    /\ jsUrls \in {<<>>, <<UrlApp>>}
    /\ retireHits = <<>>
    /\ libs = <<>>
    /\ tasks = <<>>
    /\ finalLibs = <<>>
    /\ tlsExpiry = Null
    /\ report = Null
    /\ outcomes = [NoOutcomes EXCEPT !.fetch = "ok", !.runtime = "ok"]
    /\ fnIn = Null
    /\ fnOut = Null
    /\ browser = "none"
    /\ rd = Null
    /\ pass = NewPass(Unique(scripts \o jsUrls))
    /\ fetched = <<>>
    /\ clock = 0

\* The pass is at the body of the inner loop, for candidate pass.u and
\* detector pass.det
InLoop == pass.state = "running" /\ pass.u <= Len(pass.candidates)

CurrentUrl == pass.candidates[pass.u]
CurrentDetector == DETECTORS[pass.det]

\* The loop variables after one iteration of the inner loop
Advance(p, hits) ==
    [p EXCEPT !.hits = hits,
              !.det = IF p.det < Len(DETECTORS) THEN p.det + 1 ELSE 1,
              !.u = IF p.det < Len(DETECTORS) THEN p.u ELSE p.u + 1]

RetirePhaseUntouched ==
    UNCHANGED <<scripts, runtimeLibs, jsUrls, finalLibs, tlsExpiry, report,
                fnIn, fnOut, browser, rd>>

ScanStillWaiting == UNCHANGED <<pc, retireHits, libs, tasks, outcomes>>

\* lines 66-67 and 90-104 when the file name gave a version: no fetch
FilenameVersionStep ==
    /\ pc = "detectWithRetire"
    /\ InLoop
    /\ extractVersionFromUrl(CurrentUrl, CurrentDetector) # Null
    /\ pass' = Advance(pass,
                   Append(pass.hits,
                          HitOf(CurrentDetector, CurrentUrl, TRUE,
                                extractVersionFromUrl(CurrentUrl, CurrentDetector))))
    /\ UNCHANGED <<fetched, clock>>
    /\ ScanStillWaiting
    /\ RetirePhaseUntouched

\* lines 70-104 when the file name gave no version: fetchText(u) is called
\* for this detector and ends as how, with body as the text, before scan's
\* timer
FetchTextStep(how, body) ==
    /\ pc = "detectWithRetire"
    /\ InLoop
    /\ extractVersionFromUrl(CurrentUrl, CurrentDetector) = Null
    /\ how \in FetchOutcomes
    /\ body \in Bodies
    /\ how # "ok" => body = BodyPlain
    /\ fetched' = Append(fetched, [url |-> CurrentUrl, how |-> how])
    /\ IF how = "never"
       THEN /\ pass' = [pass EXCEPT !.state = "stalled"]
            /\ UNCHANGED clock
       ELSE /\ clock + FetchDuration(how) < RetireTimeoutMs
            /\ clock' = clock + FetchDuration(how)
            /\ LET fileHit == FileHit(CurrentDetector, CurrentUrl)
                   contentHit == how = "ok" /\ body.lib = CurrentDetector.libName
                   version == IF contentHit THEN body.version ELSE Null
               IN  pass' = Advance(pass,
                               IF fileHit \/ contentHit
                               THEN Append(pass.hits,
                                           HitOf(CurrentDetector, CurrentUrl,
                                                 fileHit, version))
                               ELSE pass.hits)
    /\ ScanStillWaiting
    /\ RetirePhaseUntouched

\* lines 108-115 and scan lines 185-186: the pass resolves before the timer
\* and scan merges its result
PassReturn ==
    /\ pc = "detectWithRetire"
    /\ pass.state = "running"
    /\ pass.u > Len(pass.candidates)
    /\ pass' = [pass EXCEPT !.state = "resolved"]
    /\ MergeAndStart(DedupeHits(pass.hits))
    /\ outcomes' = [outcomes EXCEPT !.retire = "ok"]
    /\ UNCHANGED <<fetched, clock>>
    /\ RetirePhaseUntouched

\* scan lines 185-189, withTimeout(.., 15000): the timer rejects while the
\* pass waits for a fetch that never settles, or that settles (how) no
\* earlier than the timer; scan merges an empty signature result and the
\* pass is left behind
RetireTimerFires(how) ==
    /\ pc = "detectWithRetire"
    /\ \/ /\ pass.state = "stalled"
          /\ how = "never"
          /\ UNCHANGED fetched
       \/ /\ InLoop
          /\ extractVersionFromUrl(CurrentUrl, CurrentDetector) = Null
          /\ how \in FetchOutcomes \ {"never"}
          /\ clock + FetchDuration(how) >= RetireTimeoutMs
          /\ fetched' = Append(fetched, [url |-> CurrentUrl, how |-> "pending"])
    /\ clock' = RetireTimeoutMs
    /\ pass' = [pass EXCEPT !.state = "abandoned"]
    /\ MergeAndStart(<<>>)
    /\ outcomes' = [outcomes EXCEPT !.retire = "timeout"]
    /\ RetirePhaseUntouched

NextRetire ==
    \/ FilenameVersionStep
    \/ \E how \in FetchOutcomes, body \in Bodies : FetchTextStep(how, body)
    \/ PassReturn
    \/ \E how \in FetchOutcomes : RetireTimerFires(how)

SpecRetire == InitRetire /\ [][NextRetire]_vars

----------------------------------------------------------------------------
(* Properties of scan *)

Done == pc = "done"
ReportLibraries == report[1].libraries

SameLibrary(entry, lib) ==
    /\ entry.name = lib.name
    /\ entry.version = lib.version
    /\ entry.source = lib.source

\* C1: the report's libraries list has the length of the merged list and its
\* i-th entry carries the name, version and source of the i-th merged
\* library, whatever the enrichment of each library did and in whatever
\* order the enrichment tasks completed.
C1_NoLibraryDropped ==
    Done =>
        /\ Len(ReportLibraries) = Len(libs)
        /\ \A i \in 1..Len(libs) : SameLibrary(ReportLibraries[i], libs[i])

\* After the page fetch, a step that fails or times out lets scan go on
\* (the signature phase's timeout has no condition but pc to meet)
FailureLetsScanGoOn ==
    /\ pc = "runtimeDetect" =>
          ENABLED RuntimeDetectFail("error") /\ ENABLED RuntimeDetectFail("timeout")
    /\ pc = "enrich" =>
          /\ \A i \in 1..Len(tasks) :
                ~Settled(tasks[i]) => ENABLED EnrichTimeout(i, Null)
          /\ (\A i \in 1..Len(tasks) : Settled(tasks[i])) => ENABLED EnrichJoin
    /\ pc = "tls" =>
          ENABLED TlsSettles("error", Null) /\ ENABLED TlsSettles("timeout", Null)

ResolverOk(answer) == answer # Null /\ answer[1] \notin {ExecError, OsvError}

\* The report entry of merged library i, if any
EntriesOf(i) ==
    {k \in 1..Len(ReportLibraries) : SameLibrary(ReportLibraries[k], libs[i])}

\* C10: the two resolvers of enrichLib are isolated from each other: when
\* the version resolver of a library answered within its 4 s, the library's
\* report entry carries latest, outdated and diff whatever the vulnerability
\* resolver did (threw, or did not settle within its own 4 s), and likewise
\* the other way round.
C10_ResolversIsolated ==
    Done =>
        \A i \in 1..Len(tasks) :
            /\ ResolverOk(tasks[i].reg) =>
                  \E k \in EntriesOf(i) :
                      /\ ReportLibraries[k].latest # Null
                      /\ ReportLibraries[k].outdated # Null
                      /\ ReportLibraries[k].diff # "unknown"
            /\ ResolverOk(tasks[i].osv) =>
                  \E k \in EntriesOf(i) : ReportLibraries[k].vulnCount # Null

----------------------------------------------------------------------------
(* Properties of dedupeLibs *)

Deduped == pc = "dedupeLibs:done"

SameNameIgnoringCase(a, b) == toLowerCase(a.name) = toLowerCase(b.name)

\* C2: the list dedupeLibs returns has no two entries whose names are equal
\* ignoring case, and every name of the input, ignoring case, is the name of
\* an entry of the output.
C2_OnePerName ==
    Deduped =>
        /\ \A i, j \in 1..Len(fnOut) :
              SameNameIgnoringCase(fnOut[i], fnOut[j]) => i = j
        /\ \A i \in 1..Len(fnIn) :
              \E j \in 1..Len(fnOut) : SameNameIgnoringCase(fnIn[i], fnOut[j])

\* C2 witness: three candidates, two of them named alike but for case,
\* merged into two entries.
C2_Witness ==
    /\ Deduped
    /\ Len(fnIn) = 3
    /\ fnIn[1].name # fnIn[3].name
    /\ SameNameIgnoringCase(fnIn[1], fnIn[3])
    /\ ~SameNameIgnoringCase(fnIn[1], fnIn[2])
    /\ Len(fnOut) = 2

\* Two candidates of one name (ignoring case)
IsPair == Len(fnIn) = 2 /\ SameNameIgnoringCase(fnIn[1], fnIn[2])

\* C3: of two candidates with the same name, one of version "unknown" and
\* one of a concrete version, dedupeLibs keeps a single entry with the
\* concrete version, in either order and for every pair of sources.
C3_ConcreteVersionWins ==
    (Deduped /\ IsPair /\ \E a, b \in 1..2 :
                    fnIn[a].version = Unknown /\ fnIn[b].version # Unknown) =>
        /\ Len(fnOut) = 1
        /\ fnOut[1].version # Unknown

\* C4: of two candidates with the same name and the same version, one with
\* source "runtime" and one with another source, dedupeLibs keeps a single
\* entry whose source is "runtime", in either order.
C4_RuntimeWins ==
    (Deduped /\ IsPair /\ fnIn[1].version = fnIn[2].version
             /\ \E a, b \in 1..2 : fnIn[a].source = Runtime /\ fnIn[b].source # Runtime) =>
        /\ Len(fnOut) = 1
        /\ fnOut[1].source = Runtime

\* C4 witness: a static URL match first, the runtime candidate second.
C4_Witness ==
    /\ Deduped
    /\ IsPair
    /\ fnIn[1].version = fnIn[2].version
    /\ fnIn[1].source = UrlVue
    /\ fnIn[2].source = Runtime
    /\ fnOut = <<fnIn[2]>>

----------------------------------------------------------------------------
(* Properties of determineIfLatestVersion and enrichLib *)

Determined == pc = "determineIfLatestVersion:done" /\ ~fnOut.threw
Enriched == pc = "enrichLib:done"

LexLess(s, l) ==
    \/ s[1] < l[1]
    \/ s[1] = l[1] /\ s[2] < l[2]
    \/ s[1] = l[1] /\ s[2] = l[2] /\ s[3] < l[3]

MostSignificantDifference(s, l) ==
    IF s[1] # l[1] THEN "major" ELSE IF s[2] # l[2] THEN "minor" ELSE "patch"

ExpectedDiff(s, l) == IF LexLess(s, l) THEN MostSignificantDifference(s, l) ELSE "none"

\* C5: isOutdated holds exactly when the scanned (major, minor, patch) is
\* lexicographically less than the latest one, and diff names the most
\* significant component in which they differ then and is "none" otherwise;
\* 1.2.3 against 1.2.3, 1.2.9, 1.3.0, 2.0.0 gives none, patch, minor, major.
C5_VersionComparison ==
    Determined =>
        LET s == parseSemver(fnIn.lib.version)
            l == parseSemver(fnOut.value.latest)
        IN  /\ fnOut.value.isOutdated = LexLess(s, l)
            /\ fnOut.value.diff = ExpectedDiff(s, l)
            /\ fnIn.lib.version = V123 =>
                  /\ fnIn.reg = StdoutObject(Some(V123), Null) =>
                        fnOut.value.diff = "none" /\ ~fnOut.value.isOutdated
                  /\ fnIn.reg = StdoutObject(Some(V129), Null) =>
                        fnOut.value.diff = "patch" /\ fnOut.value.isOutdated
                  /\ fnIn.reg = StdoutObject(Some(V130), Null) =>
                        fnOut.value.diff = "minor" /\ fnOut.value.isOutdated
                  /\ fnIn.reg = StdoutObject(Some(V200), Null) =>
                        fnOut.value.diff = "major" /\ fnOut.value.isOutdated

\* C5 witness: 1.2.3 against a registry whose latest is 1.3.0.
C5_Witness ==
    /\ Determined
    /\ fnIn.lib.version = V123
    /\ fnIn.reg = StdoutObject(Some(V130), Null)
    /\ fnOut.value.diff = "minor"

\* C6: a library whose version is the sentinel "unknown" is never reported
\* outdated, nor with a diff of patch, minor or major, by
\* determineIfLatestVersion or by enrichLib.
C6_UnknownNotCompared ==
    fnIn # Null /\ fnIn.lib.version = Unknown =>
        /\ Determined =>
              /\ ~fnOut.value.isOutdated
              /\ fnOut.value.diff \notin {"patch", "minor", "major"}
        /\ Enriched =>
              /\ fnOut.outdated # Some(TRUE)
              /\ fnOut.diff \notin {"patch", "minor", "major"}

RegistryFailed(reg) ==
    \/ reg = ExecError
    \/ reg = StdoutNotJson
    \/ reg = StdoutJsonNull
    \/ reg = StdoutObject(Null, Null)

\* C7: when the registry query fails or its response is malformed (not
\* JSON, or JSON without a version) the entry enrichLib returns has
\* latest = null, outdated = null and diff = "unknown".
C7_RegistryFailureYieldsNulls ==
    Enriched /\ RegistryFailed(fnIn.reg) =>
        /\ fnOut.latest = Null
        /\ fnOut.outdated = Null
        /\ fnOut.diff = "unknown"

----------------------------------------------------------------------------
(* Properties of detectLibraries *)

Detected == pc = "detectLibraries:done"

\* The candidates detectLibraries emitted for the file's catalog name
NamedCandidates == {i \in 1..Len(fnOut) : fnOut[i].name = Capitalise(fnIn.name)}

\* Digits, a dot and a digit start at position q of u
DottedVersionStarts(u, q) ==
    \E e \in q..Len(u) :
        /\ \A k \in q..e : IsDigit(u[k])
        /\ e + 2 <= Len(u)
        /\ u[e + 1] = "."
        /\ IsDigit(u[e + 2])

\* The name, ignoring case, occurs in u at position i followed by an
\* optional "-" or "." and a dotted numeric version
VersionedNameAt(u, name, i) ==
    /\ i + Len(name) <= Len(u)
    /\ \A k \in 1..Len(name) : LowerChar(u[i + k - 1]) = LowerChar(name[k])
    /\ \/ DottedVersionStarts(u, i + Len(name))
       \/ /\ u[i + Len(name)] \in {"-", "."}
          /\ DottedVersionStarts(u, i + Len(name) + 1)

NoEarlierVersionedName ==
    \A i \in 1..Len(fnIn.prefix) : ~VersionedNameAt(ScriptUrlOf(fnIn), fnIn.name, i)

\* C9 as stated: for a script URL containing <name>-<v>.min.js,
\* detectLibraries emits a candidate with the capitalised name and version
\* exactly <v>, whatever text precedes the file name.
C9_VersionWhateverPrecedes ==
    Detected => \E i \in NamedCandidates : fnOut[i].version = fnIn.v

\* C9 amended: for a script URL containing <name>-<v>.min.js,
\* detectLibraries emits exactly one candidate with the capitalised name,
\* its source is the URL, and its version is exactly <v> provided the name
\* (ignoring case) followed by an optional "-" or "." and a dotted numeric
\* version does not occur earlier in the URL.
C9_VersionUnlessEarlierOccurrence ==
    Detected =>
        /\ Cardinality(NamedCandidates) = 1
        /\ \A i \in NamedCandidates :
              /\ fnOut[i].source = ScriptUrlOf(fnIn)
              /\ NoEarlierVersionedName => fnOut[i].version = fnIn.v

\* C9 witness: the name occurs earlier in the URL, in another case and not
\* followed by a version, and the candidate has the file's version.
C9_Witness ==
    /\ Detected
    /\ fnIn.prefix = <<"D", "3", ".", "1">>
    /\ fnIn.name = <<"d", "3">>
    /\ fnIn.v = V123
    /\ \E i \in NamedCandidates : fnOut[i].version = V123

----------------------------------------------------------------------------
(* Properties of runtimeDetect *)

\* C11: every browser session runtimeDetect launched is eventually closed,
\* on every exit path: after success, after a failure of any step between
\* launch and close, and when scan's 20 s timer wins and the call is abandoned
C11_BrowserEventuallyClosed == [](browser = "open" => <>(browser = "closed"))

----------------------------------------------------------------------------
(* Termination of scan *)

Terminated == pc \in {"done", "fatal"}

\* C12: once scan starts it always terminates (emits the report or fails
\* fatally), even if an external call never settles
C12_ScanAlwaysTerminates == <>Terminated

\* What the phase timers do give: once the page fetch has resolved, scan
\* reaches the report whatever the later calls do
ScanTerminatesOncePageFetched == (pc = "runtimeDetect") ~> Done

----------------------------------------------------------------------------
(* Properties of detectWithRetire *)

\* C13: in one pass the body of each candidate URL is fetched at most once,
\* so the pass makes at most as many body fetches as it has candidates
\* (at most MAX_FILES), however many detectors are tested against a candidate
C13_EachBodyFetchedOnce ==
    /\ \A i, j \in 1..Len(fetched) : fetched[i].url = fetched[j].url => i = j
    /\ Len(fetched) <= Len(pass.candidates)
    /\ Len(fetched) <= MAX_FILES

\* A fetch of candidate url failed or timed out during the pass
FetchFailed(url) ==
    \E k \in 1..Len(fetched) :
        fetched[k].url = url /\ fetched[k].how \in {"error", "timeout"}

\* Every fetch of every candidate but url returned the body
OthersFetchedOk(url) ==
    \A k \in 1..Len(fetched) : fetched[k].url # url => fetched[k].how = "ok"

\* C14: a fetch failure or timeout for one candidate (every fetch for the
\* other candidates succeeding) never aborts the pass: the hits found for
\* the other candidates are in the signature result scan merged
C14_FailedFetchLosesOnlyItsCandidate ==
    pc = "enrich" =>
        \A c \in 1..Len(pass.candidates) :
            (FetchFailed(pass.candidates[c]) /\ OthersFetchedOk(pass.candidates[c])) =>
                \A h \in 1..Len(pass.hits) :
                    pass.hits[h].url # pass.candidates[c] =>
                        \E r \in 1..Len(retireHits) :
                            /\ retireHits[r].name = pass.hits[h].name
                            /\ retireHits[r].version = pass.hits[h].version

\* What does hold: a pass that resolves before scan's timer loses no hit,
\* whatever fetches failed on the way
ResolvedPassKeepsHits ==
    (pc = "enrich" /\ pass.state = "resolved") =>
        \A h \in 1..Len(pass.hits) :
            \E r \in 1..Len(retireHits) :
                /\ retireHits[r].name = pass.hits[h].name
                /\ retireHits[r].version = pass.hits[h].version

====
